---- MODULE Spec2Model ----
(***************************************************************************)
(* Model of main_app.py, a Streamlit exploratory-data-analysis dashboard.  *)
(* Streamlit re-executes the whole script after every user interaction,    *)
(* so each action below is one interaction followed by one complete run    *)
(* of the script.  Widget values and the st.cache_data store of load_data  *)
(* are the only state that survives from one run to the next; everything   *)
(* else is what the last run put on the page.                              *)
(***************************************************************************)
EXTENDS Naturals, Sequences, FiniteSets

(* Number of data rows of the sample files that have rows. *)
MaxRows == 3

(***************************************************************************)
(* Cells.  Every cell is [t |-> kind, v |-> text].  Kinds of raw cells:    *)
(* "int" (fits a signed 64-bit integer), "bigint" (an integer in           *)
(* 2^63 .. 2^64-1), "float", "str", "bool", "date" (in a CSV file a text   *)
(* that parses as a date, in a workbook a date-typed cell), "null".        *)
(***************************************************************************)
Cell(t, v) == [t |-> t, v |-> v]

NaN == Cell("null", "")

Pick(seq, i) == seq[((i - 1) % Len(seq)) + 1]

(* The content of row i of each sample column. *)
RawCell(col, i) ==
    CASE col = "Region" -> Cell("str", Pick(<<"Norte", "Sur">>, i))
      [] col = "Capacidad_MW" -> Cell("int", Pick(<<"100", "50", "75">>, i))
      [] col = "Costo" -> Cell("float", Pick(<<"1.5", "2.5">>, i))
      [] col = "Fecha_Entrada_Operacion" ->
            Cell("date", Pick(<<"2024-01-15", "2024-02-20">>, i))
      [] col = "Fecha_Mixta" ->
            IF i = 1 THEN Cell("date", "2023-05-01")
            ELSE IF i = 2 THEN Cell("str", "pendiente")
            ELSE NaN
      [] col = "Activo" -> Cell("bool", Pick(<<"True", "False">>, i))
      [] col = "Potencia" ->
            IF i = 1 THEN NaN ELSE Cell("int", Pick(<<"20", "30">>, i))
      [] col = "Id_Grande" ->
            IF i = 1 THEN Cell("bigint", "18446744073709551615")
            ELSE Cell("int", Pick(<<"1", "2">>, i))

(* File names are sequences of characters so that endswith is computed. *)
CsvName(c) == <<c, ".", "c", "s", "v">>

XlsName(c) == <<c, ".", "x", "l", "s">>

XlsxName(c) == <<c, ".", "x", "l", "s", "x">>

UpperCsvName(c) == <<c, ".", "C", "S", "V">>

UploadedFile(name, kind, cols, nrows) ==
    [name |-> name, kind |-> kind, cols |-> cols, nrows |-> nrows]

(***************************************************************************)
(* The files the user can upload.  The uploader accepts the extensions     *)
(* csv, xlsx and xls without regard to case.  "corrupt" content makes the  *)
(* pandas reader raise an exception with a message, "malformed" content    *)
(* makes the workbook reader fail a bare assert: an exception whose        *)
(* message, str(e), is the empty string.                                   *)
(***************************************************************************)
Files ==
    << UploadedFile(CsvName("a"), "table", <<"Region", "Capacidad_MW", "Costo">>, MaxRows),
       UploadedFile(CsvName("b"), "table", <<"Fecha_Entrada_Operacion", "Id_Grande">>, MaxRows),
       UploadedFile(XlsxName("c"), "table", <<"Fecha_Mixta", "Fecha_Entrada_Operacion">>, MaxRows),
       UploadedFile(CsvName("d"), "table", <<"Activo", "Potencia">>, MaxRows),
       UploadedFile(CsvName("e"), "table", <<"Region", "Capacidad_MW">>, 0),
       UploadedFile(UpperCsvName("f"), "table", <<"Region", "Capacidad_MW">>, MaxRows),
       UploadedFile(XlsxName("g"), "corrupt", <<>>, 0),
       UploadedFile(XlsName("h"), "malformed", <<>>, 0) >>

FileIds == 1 .. Len(Files)

NoFile == 0

(***************************************************************************)
(* Data frames: [columns, dtypes, data]; data is a sequence of rows, each  *)
(* a function from column name to cell.  NoTable stands for Python's None, *)
(* which the field none tells apart from every frame.                      *)
(***************************************************************************)
NoTable == [none |-> TRUE, columns |-> <<>>, dtypes |-> <<>>, data |-> <<>>]

Range(seq) == {seq[i] : i \in DOMAIN seq}

RawColumn(f, col) == [i \in 1 .. f.nrows |-> RawCell(col, i)]

Kinds(cells) == {cells[i].t : i \in DOMAIN cells}

(* The dtype pandas.read_csv infers for a column of parsed text fields. *)
CsvDtype(cells) ==
    IF cells = <<>> THEN "object"
    ELSE IF Kinds(cells) \subseteq {"int"} THEN "int64"
    ELSE IF Kinds(cells) \subseteq {"int", "bigint"} THEN "uint64"
    ELSE IF Kinds(cells) \subseteq {"int", "bigint", "float", "null"} THEN "float64"
    ELSE IF Kinds(cells) \subseteq {"bool"} THEN "bool"
    ELSE "object"

(* The dtype pandas.read_excel gives a column of typed workbook cells. *)
ExcelDtype(cells) ==
    IF cells = <<>> THEN "object"
    ELSE IF Kinds(cells) \subseteq {"int"} THEN "int64"
    ELSE IF Kinds(cells) \subseteq {"int", "bigint", "float", "null"} THEN "float64"
    ELSE IF Kinds(cells) \subseteq {"date", "null"} THEN "datetime64[ns]"
    ELSE IF Kinds(cells) \subseteq {"bool"} THEN "bool"
    ELSE "object"

(* The value a raw cell is stored as in a column of the given dtype. *)
CsvValue(dtype, c) ==
    IF c.t = "null" THEN NaN
    ELSE IF dtype = "float64" THEN Cell("float", c.v)
    ELSE IF dtype = "uint64" THEN Cell("uint", c.v)
    ELSE IF dtype = "object" THEN Cell("str", c.v)
    ELSE c

ExcelValue(dtype, c) ==
    IF c.t = "null" THEN NaN
    ELSE IF dtype = "float64" THEN Cell("float", c.v)
    ELSE c

ColumnDtype(reader, cells) ==
    IF reader = "csv" THEN CsvDtype(cells) ELSE ExcelDtype(cells)

StoredValue(reader, dtype, c) ==
    IF reader = "csv" THEN CsvValue(dtype, c) ELSE ExcelValue(dtype, c)

(* The frame a reader builds from the content of a file. *)
Frame(f, reader) ==
    LET names == Range(f.cols)
        dt == [c \in names |-> ColumnDtype(reader, RawColumn(f, c))]
    IN  [none |-> FALSE,
         columns |-> f.cols,
         dtypes |-> dt,
         data |-> [i \in 1 .. f.nrows |->
                      [c \in names |-> StoredValue(reader, dt[c], RawCell(c, i))]]]

Parsed(df) == [raised |-> FALSE, df |-> df, msg |-> ""]

Raised(msg) == [raised |-> TRUE, df |-> NoTable, msg |-> msg]

read_csv(f) ==
    IF f.kind # "table" THEN Raised("Error tokenizing data")
    ELSE Parsed(Frame(f, "csv"))

read_excel(f) ==
    IF f.kind = "corrupt" THEN Raised("File is not a zip file")
    ELSE IF f.kind = "malformed" THEN Raised("")
    ELSE Parsed(Frame(f, "excel"))

(* str.endswith *)
endswith(s, suffix) ==
    /\ Len(suffix) <= Len(s)
    /\ SubSeq(s, Len(s) - Len(suffix) + 1, Len(s)) = suffix

(* What load_data returns: the pair (df, error); "None" is Python's None. *)
Loaded(df, error) == [df |-> df, error |-> error]

OfParse(r) == IF r.raised THEN Loaded(NoTable, r.msg) ELSE Loaded(r.df, "None")

load_data(file) ==
    LET filename == file.name
    IN  IF endswith(filename, <<".", "c", "s", "v">>) THEN OfParse(read_csv(file))
        ELSE IF endswith(filename, <<".", "x", "l", "s", "x">>)
                \/ endswith(filename, <<".", "x", "l", "s">>)
             THEN OfParse(read_excel(file))
        ELSE Loaded(NoTable, "Formato no soportado.")

(* Truth value of the error, as tested by "if error:". *)
Truthy(error) == error # "None" /\ error # ""

(***************************************************************************)
(* Column classification (lines 47-49).                                    *)
(***************************************************************************)
RECURSIVE SelectColumns(_, _, _)
SelectColumns(cols, dtypes, include) ==
    IF cols = <<>> THEN <<>>
    ELSE (IF dtypes[Head(cols)] \in include THEN <<Head(cols)>> ELSE <<>>)
         \o SelectColumns(Tail(cols), dtypes, include)

select_dtypes(df, include) == SelectColumns(df.columns, df.dtypes, include)

all_columns_of(df) == df.columns

NumericDtypes == {"float64", "int64"}

CategoricalDtypes == {"object", "category", "bool"}

numeric_columns_of(df) == select_dtypes(df, NumericDtypes)

categorical_columns_of(df) == select_dtypes(df, CategoricalDtypes)

(***************************************************************************)
(* Filter step (lines 54-63).                                              *)
(***************************************************************************)
(* df[col].unique(): the distinct values of the column, NaN included. *)
unique(df, col) == {df.data[i][col] : i \in DOMAIN df.data}

RECURSIVE KeepRows(_, _, _)
KeepRows(data, col, vals) ==
    IF data = <<>> THEN <<>>
    ELSE (IF Head(data)[col] \in vals THEN <<Head(data)>> ELSE <<>>)
         \o KeepRows(Tail(data), col, vals)

(* Variant: membership by ==, under which NaN equals nothing. *)
isin_rows_nan_unequal(df, col, vals) ==
    [df EXCEPT !.data = KeepRows(df.data, col, vals \ {NaN})]

(* df[df[col].isin(vals)]: pandas isin matches NaN with NaN. *)
isin_rows(df, col, vals) == [df EXCEPT !.data = KeepRows(df.data, col, vals)]

(* "if filter_val:" - an empty multiselect is falsy and leaves df alone. *)
ApplySelection(df, col, vals) ==
    IF vals # {} THEN isin_rows(df, col, vals) ELSE df

FilterStep(df, w) ==
    IF w.filter_col # "Ninguno" THEN ApplySelection(df, w.filter_col, w.filter_val)
    ELSE df

(***************************************************************************)
(* Tab 1: metrics and per-column information (lines 69-87).                *)
(***************************************************************************)
len(df) == Len(df.data)

NullCount(df, col) == Cardinality({i \in DOMAIN df.data : df.data[i][col] = NaN})

TotalNulls(df) ==
    Cardinality({p \in (DOMAIN df.data) \X Range(df.columns) : df.data[p[1]][p[2]] = NaN})

RECURSIVE Gcd(_, _)
Gcd(a, b) == IF b = 0 THEN a ELSE Gcd(b, a % b)

(* Series / len(df) * 100 is a true division: the percentage is kept as    *)
(* the exact fraction num/den in lowest terms (1 null in 3 rows is 100/3,  *)
(* the float 33.33...).  With no rows pandas yields NaN, it never raises.  *)
PctNulos(nulls, n) ==
    IF n = 0 THEN [nan |-> TRUE, num |-> 0, den |-> 1]
    ELSE [nan |-> FALSE,
          num |-> (nulls * 100) \div Gcd(nulls * 100, n),
          den |-> n \div Gcd(nulls * 100, n)]

Tab1(df) ==
    [Filas |-> len(df),
     Columnas |-> Len(df.columns),
     NulosTotales |-> TotalNulls(df),
     info_df |-> [c \in Range(df.columns) |->
                    [Tipo |-> df.dtypes[c],
                     Nulos |-> NullCount(df, c),
                     Pct |-> PctNulos(NullCount(df, c), len(df))]]]

NoMetrics == [Filas |-> 0, Columnas |-> 0, NulosTotales |-> 0, info_df |-> <<>>]

(***************************************************************************)
(* Charts.  A figure is the call made to plotly express: the function and  *)
(* the columns passed as x, y and color.                                   *)
(***************************************************************************)
Fig(family, x, y, color) == [family |-> family, x |-> x, y |-> y, color |-> color]

NoFig == Fig("none", "", "", "")

(* A message box: its kind, its fixed text and the value formatted into it. *)
Msg(kind, text, arg) == [kind |-> kind, text |-> text, arg |-> arg]

(* Tab 2 (lines 90-126). *)
Tab2(w, numeric) ==
    IF w.column_to_plot \in Range(numeric)
    THEN Fig("histogram", w.column_to_plot, "", "None")
    ELSE Fig("bar", w.column_to_plot, "Conteo", "None")

color_arg(w) == IF w.color_col = "Ninguno" THEN "None" ELSE w.color_col

(* The keyword parameters of plotly.express.box; it takes no **kwargs, so  *)
(* any other keyword makes the call raise TypeError.                       *)
PxBoxKeywords ==
    {"data_frame", "x", "y", "color", "facet_row", "facet_col", "facet_col_wrap",
     "facet_row_spacing", "facet_col_spacing", "hover_name", "hover_data",
     "custom_data", "animation_frame", "animation_group", "category_orders",
     "labels", "color_discrete_sequence", "color_discrete_map", "orientation",
     "boxmode", "log_x", "log_y", "range_x", "range_y", "points", "notched",
     "title", "template", "width", "height"}

(* The outcome of a charting tab: figure, messages, exception raised. *)
Drawn(fig) == [fig |-> fig, msgs |-> {}, raised |-> FALSE]

Warned(msg) == [fig |-> NoFig, msgs |-> {msg}, raised |-> FALSE]

TypeError(keyword) ==
    [fig |-> NoFig, msgs |-> {Msg("exception", "TypeError", keyword)}, raised |-> TRUE]

(* px.box(df, x=..., y=..., color=..., **more) *)
px_box(x, y, color, keywords) ==
    IF keywords \subseteq PxBoxKeywords THEN Drawn(Fig("box", x, y, color))
    ELSE TypeError(CHOOSE k \in keywords : k \notin PxBoxKeywords)

XYWarning == Msg("warning", "Selecciona al menos una variable numerica", "")

(* Tab 3 (lines 129-156). *)
Tab3(w, numeric, categorical) ==
    IF w.x_axis \in Range(numeric) /\ w.y_axis \in Range(numeric)
    THEN Drawn(Fig("scatter", w.x_axis, w.y_axis, color_arg(w)))
    ELSE IF \/ w.x_axis \in Range(categorical) /\ w.y_axis \in Range(numeric)
            \/ w.x_axis \in Range(numeric) /\ w.y_axis \in Range(categorical)
    THEN IF w.x_axis \in Range(categorical)
         THEN px_box(w.x_axis, w.y_axis, color_arg(w), {"x", "y", "color", "title"})
         ELSE px_box(w.y_axis, w.x_axis, color_arg(w),
                     {"x", "y", "color", "orient", "title"})
    ELSE Warned(XYWarning)

(* Tab 4 (lines 159-168): corr_matrix is taken over the numeric columns. *)
NoCorr == [shown |-> FALSE, columns |-> <<>>]

CorrInfo == Msg("info", "Se necesitan al menos 2 columnas numericas", "")

HasEnoughNumeric(numeric) == Len(numeric) > 1

Tab4(numeric) ==
    IF HasEnoughNumeric(numeric)
    THEN [corr |-> [shown |-> TRUE, columns |-> numeric], msgs |-> {}]
    ELSE [corr |-> NoCorr, msgs |-> {CorrInfo}]

(***************************************************************************)
(* One run of the script.                                                  *)
(***************************************************************************)
VARIABLES
    uploaded_file,        \* index into Files of the file in the uploader, or NoFile
    cache,                \* st.cache_data store of load_data, one entry per file
    widgets,              \* values of the select boxes and of the multiselect
    status,               \* how the last run ended: "done", "stopped", "exception"
    messages,             \* st.error / st.warning / st.info / st.success boxes shown
    all_columns,
    numeric_columns,
    categorical_columns,
    df,                   \* the frame the tabs were drawn from (after the filter step)
    metrics,              \* tab 1
    fig_univ,             \* tab 2
    fig_xy,               \* tab 3
    fig_corr              \* tab 4

vars == <<uploaded_file, cache, widgets, status, messages, all_columns, numeric_columns,
          categorical_columns, df, metrics, fig_univ, fig_xy, fig_corr>>

Widgets(fc, fv, cp, x, y, color) ==
    [filter_col |-> fc, filter_val |-> fv, column_to_plot |-> cp,
     x_axis |-> x, y_axis |-> y, color_col |-> color]

(* No widget other than the uploader is on the page. *)
NoWidgets == Widgets("Ninguno", {}, "", "", "", "Ninguno")

(* The values the widgets take when first drawn for a frame with columns:  *)
(* index 0 everywhere, index 1 for the Y axis when there are two columns.  *)
DefaultWidgets(frame) ==
    Widgets("Ninguno", {}, frame.columns[1], frame.columns[1],
            frame.columns[IF Len(frame.columns) > 1 THEN 2 ELSE 1], "Ninguno")

Page(st, msgs, frame, all, num, cat, m, fu, fx, fc) ==
    [status |-> st, messages |-> msgs, df |-> frame, all_columns |-> all,
     numeric_columns |-> num, categorical_columns |-> cat, metrics |-> m,
     fig_univ |-> fu, fig_xy |-> fx, fig_corr |-> fc]

BarePage(st, msgs) ==
    Page(st, msgs, NoTable, <<>>, <<>>, <<>>, NoMetrics, NoFig, NoFig, NoCorr)

(* Names bound at module level when the else branch (line 170) is run. *)
BoundNames ==
    {"st", "pd", "px", "sns", "plt", "Groq", "load_data", "uploaded_file"}

NameError(name) == Msg("exception", "NameError", name)

Waiting == Msg("info", "Esperando archivo...", "")

(* Lines 170-236: the welcome screen, then "with tab5:" and groq_api_key. *)
ElseBranch ==
    IF "tab5" \notin BoundNames
    THEN BarePage("exception", {Waiting, NameError("tab5")})
    ELSE IF "groq_api_key" \notin BoundNames
    THEN BarePage("exception", {Waiting, NameError("groq_api_key")})
    ELSE BarePage("done", {Waiting, Msg("warning", "introduce tu API Key de Groq", "")})

(* Lines 40-42: st.error and st.stop. *)
LoadErrorPage(error) ==
    BarePage("stopped", {Msg("error", "Error al cargar el archivo", error)})

Loaded_ok == Msg("success", "Datos cargados correctamente", "")

(* Lines 44-168.  An exception raised in tab 3 ends the run there: what    *)
(* was drawn before stays on the page, tab 4 is left empty.                *)
DashboardFrom(loaded, w, numeric, categorical, view, t3, t4) ==
    IF t3.raised
    THEN Page("exception", {Loaded_ok} \cup t3.msgs,
              view, all_columns_of(loaded), numeric, categorical,
              Tab1(view), Tab2(w, numeric), t3.fig, NoCorr)
    ELSE Page("done", {Loaded_ok} \cup t3.msgs \cup t4.msgs,
              view, all_columns_of(loaded), numeric, categorical,
              Tab1(view), Tab2(w, numeric), t3.fig, t4.corr)

Dashboard(loaded, w) ==
    DashboardFrom(loaded, w, numeric_columns_of(loaded), categorical_columns_of(loaded),
                  FilterStep(loaded, w),
                  Tab3(w, numeric_columns_of(loaded), categorical_columns_of(loaded)),
                  Tab4(numeric_columns_of(loaded)))

(* st.cache_data: a hit returns the stored result, a miss calls load_data. *)
NoEntry == [hit |-> FALSE, value |-> Loaded(NoTable, "None")]

CachedCall(store, id) ==
    IF store[id].hit THEN store[id].value ELSE load_data(Files[id])

(* The entry the store holds once the run is over.  Line 63 rebinds the    *)
(* name df to a new frame; the frame load_data returned is not touched.    *)
StoredAfterRun(result, view) == result

(* Line 47 on df = None: the success box is up, df.columns raises. *)
NoneTypePage ==
    BarePage("exception", {Loaded_ok, Msg("exception", "AttributeError", "columns")})

Script(id, store, w) ==
    IF id = NoFile THEN ElseBranch
    ELSE LET result == CachedCall(store, id)
         IN  IF Truthy(result.error) THEN LoadErrorPage(result.error)
             ELSE IF result.df.none THEN NoneTypePage
             ELSE Dashboard(result.df, w)

StoreAfter(id, store, w) ==
    IF id = NoFile THEN store
    ELSE LET result == CachedCall(store, id)
             view == IF Truthy(result.error) \/ result.df.none THEN NoTable
                     ELSE FilterStep(result.df, w)
         IN  [store EXCEPT ![id] = [hit |-> TRUE, value |-> StoredAfterRun(result, view)]]

(* The script is run with file id and widget values w. *)
Rerun(id, w) ==
    \E page \in {Script(id, cache, w)} :
        /\ uploaded_file' = id
        /\ widgets' = w
        /\ cache' = StoreAfter(id, cache, w)
        /\ status' = page.status
        /\ messages' = page.messages
        /\ all_columns' = page.all_columns
        /\ numeric_columns' = page.numeric_columns
        /\ categorical_columns' = page.categorical_columns
        /\ df' = page.df
        /\ metrics' = page.metrics
        /\ fig_univ' = page.fig_univ
        /\ fig_xy' = page.fig_xy
        /\ fig_corr' = page.fig_corr

(* The widget values of the first run after a file is put in the uploader. *)
FirstWidgets(id, store) ==
    LET result == CachedCall(store, id)
    IN  IF Truthy(result.error) \/ result.df.none THEN NoWidgets
        ELSE DefaultWidgets(result.df)

(* The frame load_data returns for the file in the uploader. *)
LoadedFrame == CachedCall(cache, uploaded_file).df

(***************************************************************************)
(* Initially the page is open and no file has been uploaded.               *)
(***************************************************************************)
Init ==
    /\ uploaded_file = NoFile
    /\ cache = [id \in FileIds |-> NoEntry]
    /\ widgets = NoWidgets
    /\ status = ElseBranch.status
    /\ messages = ElseBranch.messages
    /\ all_columns = <<>>
    /\ numeric_columns = <<>>
    /\ categorical_columns = <<>>
    /\ df = NoTable
    /\ metrics = NoMetrics
    /\ fig_univ = NoFig
    /\ fig_xy = NoFig
    /\ fig_corr = NoCorr

(* The user puts a file in the uploader; all other widgets are new. *)
Upload ==
    \E id \in FileIds :
        /\ id # uploaded_file
        /\ Rerun(id, FirstWidgets(id, cache))

(* The user removes the file from the uploader. *)
RemoveFile ==
    /\ uploaded_file # NoFile
    /\ Rerun(NoFile, NoWidgets)

(* The widgets below exist once the run has got past line 47. *)
DashboardShown == uploaded_file # NoFile /\ all_columns # <<>>

(* "Filtrar por columna": the multiselect of a newly chosen column is a    *)
(* new widget and starts with its default, every value of the column.      *)
SelectFilterCol ==
    /\ DashboardShown
    /\ \E c \in {"Ninguno"} \cup Range(categorical_columns) :
        /\ c # widgets.filter_col
        /\ Rerun(uploaded_file,
                 [widgets EXCEPT !.filter_col = c,
                                 !.filter_val = IF c = "Ninguno" THEN {}
                                                ELSE unique(LoadedFrame, c)])

(* "Valores de ...": any subset of the options can be left selected. *)
SelectFilterVal ==
    /\ DashboardShown
    /\ widgets.filter_col # "Ninguno"
    /\ \E vals \in SUBSET unique(LoadedFrame, widgets.filter_col) :
        /\ vals # widgets.filter_val
        /\ Rerun(uploaded_file, [widgets EXCEPT !.filter_val = vals])

SelectColumnToPlot ==
    /\ DashboardShown
    /\ \E c \in Range(all_columns) :
        /\ c # widgets.column_to_plot
        /\ Rerun(uploaded_file, [widgets EXCEPT !.column_to_plot = c])

SelectXAxis ==
    /\ DashboardShown
    /\ \E c \in Range(all_columns) :
        /\ c # widgets.x_axis
        /\ Rerun(uploaded_file, [widgets EXCEPT !.x_axis = c])

SelectYAxis ==
    /\ DashboardShown
    /\ \E c \in Range(all_columns) :
        /\ c # widgets.y_axis
        /\ Rerun(uploaded_file, [widgets EXCEPT !.y_axis = c])

SelectColor ==
    /\ DashboardShown
    /\ \E c \in {"Ninguno"} \cup Range(categorical_columns) :
        /\ c # widgets.color_col
        /\ Rerun(uploaded_file, [widgets EXCEPT !.color_col = c])

Next ==
    \/ Upload
    \/ RemoveFile
    \/ SelectFilterCol
    \/ SelectFilterVal
    \/ SelectColumnToPlot
    \/ SelectXAxis
    \/ SelectYAxis
    \/ SelectColor

Spec == Init /\ [][Next]_vars

(***************************************************************************)
(* Properties.                                                             *)
(***************************************************************************)
(* The file in the uploader was loaded without error. *)
FileLoaded == uploaded_file # NoFile /\ ~load_data(Files[uploaded_file]).df.none

(* The frame a fresh parse of the file in the uploader gives. *)
SourceFrame == load_data(Files[uploaded_file]).df

(* The raw values of a column of the file in the uploader. *)
RawValues(c) == RawColumn(Files[uploaded_file], c)

Bucket(c) ==
    IF c \in Range(numeric_columns) THEN "Numeric"
    ELSE IF c \in Range(categorical_columns) THEN "Categorical"
    ELSE "Unclassified"

(* Column names that follow the date convention (contain "Fecha"). *)
DateNamed(c) == c \in {"Fecha_Entrada_Operacion", "Fecha_Mixta"}

FilterActive == FileLoaded /\ widgets.filter_col # "Ninguno"

(* C1: every column of a loaded table is in exactly one classification     *)
(* bucket, whatever its value type.                                        *)
C1_EveryColumnInExactlyOneBucket ==
    FileLoaded =>
        \A c \in Range(all_columns) :
            (c \in Range(numeric_columns)) # (c \in Range(categorical_columns))

(* C2: integer or floating-point columns are Numeric, text columns are     *)
(* Categorical, date-time columns and date-named columns whose values all  *)
(* parse as dates are Temporal, date-named columns with a value that does  *)
(* not parse are Categorical.                                              *)
C2_ClassificationFollowsStatedRules ==
    FileLoaded =>
        \A c \in Range(all_columns) :
            /\ (RawValues(c) # <<>> /\ Kinds(RawValues(c)) \subseteq {"int", "bigint", "float"})
                  => Bucket(c) = "Numeric"
            /\ (RawValues(c) # <<>> /\ Kinds(RawValues(c)) \subseteq {"str"})
                  => Bucket(c) = "Categorical"
            /\ (\/ df.dtypes[c] = "datetime64[ns]"
                \/ DateNamed(c) /\ RawValues(c) # <<>>
                                /\ Kinds(RawValues(c)) \subseteq {"date"})
                  => Bucket(c) = "Temporal"
            /\ (DateNamed(c) /\ "str" \in Kinds(RawValues(c)))
                  => Bucket(c) = "Categorical"

(* C3: the frame the tabs use has no more rows than the loaded table and   *)
(* every one of its rows has a selected value in the filter column.        *)
C3_RowsAreSelected ==
    FileLoaded =>
        /\ len(df) <= len(SourceFrame)
        /\ widgets.filter_col # "Ninguno" =>
              \A i \in DOMAIN df.data : df.data[i][widgets.filter_col] \in widgets.filter_val

(* C4: an active filter with nothing selected gives zero rows, a warning,  *)
(* and no metrics or charts.                                               *)
C4_EmptySelectionWarns ==
    (FilterActive /\ widgets.filter_val = {}) =>
        /\ len(df) = 0
        /\ \E m \in messages : m.kind = "warning" /\ m # XYWarning
        /\ metrics = NoMetrics
        /\ fig_univ = NoFig
        /\ fig_xy = NoFig

(* C5: the X/Y chart is decided by the buckets of the two columns:         *)
(* Numeric/Numeric a scatter of X against Y, Categorical/Numeric a box     *)
(* plot with the categorical column as x, Numeric/Categorical a box plot   *)
(* with the columns swapped, anything else no chart and a message; no      *)
(* pairing makes the run fail.                                             *)
C5_ChartFamilyByBuckets ==
    FileLoaded =>
        /\ (Bucket(widgets.x_axis) = "Numeric" /\ Bucket(widgets.y_axis) = "Numeric")
              => /\ fig_xy.family = "scatter"
                 /\ fig_xy.x = widgets.x_axis
                 /\ fig_xy.y = widgets.y_axis
        /\ (Bucket(widgets.x_axis) = "Categorical" /\ Bucket(widgets.y_axis) = "Numeric")
              => /\ fig_xy.family = "box"
                 /\ fig_xy.x = widgets.x_axis
                 /\ fig_xy.y = widgets.y_axis
        /\ (Bucket(widgets.x_axis) = "Numeric" /\ Bucket(widgets.y_axis) = "Categorical")
              => /\ fig_xy.family = "box"
                 /\ fig_xy.x = widgets.y_axis
                 /\ fig_xy.y = widgets.x_axis
        /\ ("Numeric" \notin {Bucket(widgets.x_axis), Bucket(widgets.y_axis)}
               \/ "Unclassified" \in {Bucket(widgets.x_axis), Bucket(widgets.y_axis)})
              => /\ fig_xy = NoFig
                 /\ XYWarning \in messages
        /\ \A m \in messages : m.kind # "exception"

(* The rows of the loaded table whose value in the filter column is one   *)
(* of the selected values; every row when no filter column is chosen.      *)
CurrentRows ==
    {i \in DOMAIN SourceFrame.data :
        \/ widgets.filter_col = "Ninguno"
        \/ SourceFrame.data[i][widgets.filter_col] \in widgets.filter_val}

(* C6: after any sequence of filter changes the counts shown are those of  *)
(* the loaded table under the current selection alone, and the loaded      *)
(* table kept for later runs is unchanged.                                 *)
C6_MetricsFollowCurrentSelection ==
    /\ FileLoaded =>
          /\ metrics.Filas = Cardinality(CurrentRows)
          /\ metrics.Columnas = Len(Files[uploaded_file].cols)
          /\ metrics.NulosTotales =
                Cardinality({p \in CurrentRows \X Range(SourceFrame.columns) :
                                SourceFrame.data[p[1]][p[2]] = NaN})
          /\ \A c \in Range(SourceFrame.columns) :
                metrics.info_df[c].Nulos =
                    Cardinality({i \in CurrentRows : SourceFrame.data[i][c] = NaN})
    /\ \A id \in FileIds : cache[id].hit => cache[id].value = load_data(Files[id])

(* C7: no run of the script ends in an uncaught exception. *)
C7_NoUncaughtFault == status # "exception"

(* The load of a file fails: unsupported extension or unreadable content. *)
LoadFails(f) ==
    \/ ~ \/ endswith(f.name, <<".", "c", "s", "v">>)
         \/ endswith(f.name, <<".", "x", "l", "s", "x">>)
         \/ endswith(f.name, <<".", "x", "l", "s">>)
    \/ f.kind # "table"

(* C8: when the load fails, load_data gives no table and a message, the    *)
(* message is shown, and the run stops before classification, filtering    *)
(* and the tabs.                                                           *)
C8_LoadErrorHalts ==
    (uploaded_file # NoFile /\ LoadFails(Files[uploaded_file])) =>
        /\ cache[uploaded_file].value.df = NoTable
        /\ cache[uploaded_file].value.error \notin {"None", ""}
        /\ messages = {Msg("error", "Error al cargar el archivo",
                           cache[uploaded_file].value.error)}
        /\ status = "stopped"
        /\ all_columns = <<>> /\ numeric_columns = <<>> /\ categorical_columns = <<>>
        /\ df = NoTable /\ metrics = NoMetrics
        /\ fig_univ = NoFig /\ fig_xy = NoFig /\ fig_corr = NoCorr

(* C9: the correlation matrix is drawn only with two or more Numeric       *)
(* columns; with fewer, the view reports that columns are missing.         *)
C9_CorrelationNeedsTwoNumeric ==
    FileLoaded =>
        /\ fig_corr.shown => Len(numeric_columns) >= 2
        /\ Len(numeric_columns) < 2 => (~fig_corr.shown /\ CorrInfo \in messages)

(* C10: a loaded table with rows leaves rows after the filter step, so     *)
(* the percentage of nulls is never a division by zero.                    *)
C10_RowsRemainAfterFilter ==
    (FileLoaded /\ len(SourceFrame) >= 1) =>
        /\ len(df) >= 1
        /\ metrics.Filas >= 1
        /\ \A c \in Range(all_columns) : ~metrics.info_df[c].Pct.nan

(* Only the missing value is selected and its rows are kept. *)
C10_Witness ==
    /\ FilterActive
    /\ widgets.filter_val = {NaN}
    /\ len(df) >= 1
    /\ \A c \in Range(all_columns) : ~metrics.info_df[c].Pct.nan

====
